---- MODULE Spec2Model ----
(***************************************************************************)
(* Persistence and repository layer of the project dashboard (db.ts):      *)
(* an in-memory sql.js database, re-exported to one file after every       *)
(* statement issued through exec, and the repository built by makeRepo.    *)
(*                                                                         *)
(* Tables are sequences of rows in rowid (insertion) order.  The nullable  *)
(* free-text project columns (objective, nextAction, strategy, hypothesis, *)
(* constraints, success, dueDate) are all handled alike by the code and    *)
(* are represented by the one column objective.  Row ids are random        *)
(* strings in the code; the model draws a fresh id for every insert.       *)
(*                                                                         *)
(* The cron loop of GET /api/state (index.ts) is modelled on top of the    *)
(* repository: it reads the job registry, maps jobs to projects and, for   *)
(* every job it finds changed, upserts the snapshot, logs an activity      *)
(* entry and writes an update and a status to the mapped project.          *)
(***************************************************************************)
EXTENDS Integers, Sequences, FiniteSets, TLC

\* ---------------------------------------------------------------- bounds
MaxOps == 2          \* repository calls issued in one behaviour
MaxClock == 1        \* Date.now() ranges over 0..MaxClock
MaxCrashes == 1      \* process stops (followed by a reopen) in one behaviour
MaxReorder == 2      \* length of the id list given to reorderQueue
MaxPage == 5         \* limit and offset of listActivity range over 0..MaxPage
MaxRefresh == 1
MaxSeedings == 2      \* requests in one behaviour of the dashboard server

\* ---------------------------------------------------------- value domains
Absent == "absent"                 \* an optional parameter that is omitted
Null == "null"                     \* SQL NULL / JS null
NoName == <<>>                     \* omitted name in a patch
NoText == <<>>                     \* no text

\* an optional number or id: {} when omitted or null, {v} when given
None == {}
Some(v) == {v}
The(o) == CHOOSE v \in o : TRUE

ProjectStatus == {"green", "yellow", "red"}
UpdateType == {"note", "blocker"}
TaskStatus == {"todo", "doing", "done"}
QueueStatus == {"pending", "in_progress", "completed", "skipped"}
QueueSource == {"human", "agent"}

\* names and texts are sequences of one-character strings
Names == {<<"a">>, <<"A">>, <<"b">>}
Texts == {<<"x", "y">>}
Objectives == {"obj"}
PreviewLen == 100                  \* characters of text kept in a preview
MissingIds == {0}                  \* ids that match no row (ids start at 1)
JobIds == {"j1", "j2"}
JobStatuses == {"ok", "error"}

\* SQLite lower(): ASCII upper-case letters are folded, all else is kept
LowerChar(c) ==
  CASE c = "A" -> "a"
    [] c = "B" -> "b"
    [] c = "C" -> "c"
    [] c = "D" -> "d"
    [] c = "G" -> "g"
    [] c = "I" -> "i"
    [] c = "O" -> "o"
    [] c = "R" -> "r"
    [] c = "S" -> "s"
    [] OTHER -> c

Lower(s) == [i \in DOMAIN s |-> LowerChar(s[i])]

\* ------------------------------------------------------------------ state
VARIABLES
  db,        \* the in-memory database of the open handle
  disk,      \* the database file
  pc,        \* "closed", "idle", or the position inside a compound method
  pending,   \* db.run of exec has been done, its __persist call has not
  clock,     \* the value Date.now() returns
  local,     \* locals of the compound method in progress
  call,      \* the repository call in progress or last finished (history)
  written,   \* the file images written since that call began (history)
  budget,    \* repository calls still to be issued
  crashes,   \* process stops so far
  hist       \* what earlier calls did that the tables no longer show (history)

vars ==
  <<db, disk, pc, pending, clock, local, call, written, budget, crashes, hist>>

Tables == {"projects", "updates", "tasks", "queue", "activity", "cron_snapshots"}

\* new SQL.Database(): no table yet
NewDatabase ==
  [schema |-> {}, projects |-> <<>>, updates |-> <<>>, tasks |-> <<>>,
   queue |-> <<>>, activity |-> <<>>, cron_snapshots |-> <<>>, qseq |-> 0]

\* CREATE TABLE IF NOT EXISTS for the six tables; rows are kept
migrate(d) == [d EXCEPT !.schema = d.schema \cup Tables]

\* db.export(): the file image holds the schema and every row of every table
export(d) == [exists |-> TRUE, image |-> d]

NoFile == [exists |-> FALSE, image |-> NewDatabase]

\* new SQL.Database(bytes)
Database(buf) == buf.image

\* persist(db, dbFile): writeFileSync(dbFile, db.export())
mutant_persist_stale(d, file) == file

mutant_persist_partial(d, file) == export([d EXCEPT !.activity = <<>>])

persist(d, file) == export(d)

NoRow == [null |-> TRUE]

\* qGet: rows[0] ?? null, of the rows a SELECT yields in rowid order
qGet(rows) == IF rows = <<>> THEN NoRow ELSE Head(rows)

NoLocal ==
  [now |-> 0, projectId |-> 0, ids |-> <<>>, i |-> 0, jobs |-> <<>>,
   schedules |-> <<>>]

NoParams == [none |-> TRUE]

NoCall ==
  [op |-> "none", ok |-> TRUE, id |-> 0, projectId |-> 0, old |-> "",
   new |-> "", arg |-> NoText, err |-> "", params |-> NoParams,
   pre |-> NewDatabase]

NoIter == [none |-> TRUE]

\* ranks: the ranks addQueueItem has handed out; iter: the last iteration of
\* the cron loop
NoHist == [ranks |-> {}, iter |-> NoIter]

Init ==
  /\ db = NewDatabase
  /\ disk = NoFile
  /\ pc = "closed"
  /\ pending = FALSE
  /\ clock = 0
  /\ local = NoLocal
  /\ call = NoCall
  /\ written = <<>>
  /\ budget = MaxOps
  /\ crashes = 0
  /\ hist = NoHist

\* a caller may issue a repository call: the handle is open, no call is in
\* progress
Ready == pc = "idle" /\ ~pending /\ budget > 0

\* the last repository call has returned or thrown
Returned == pc = "idle" /\ ~pending

\* ------------------------------------------------------- store adapter
OpenDb ==
  /\ pc = "closed"
  /\ LET loaded == IF disk.exists THEN Database(disk) ELSE NewDatabase
         d == migrate(loaded)
     IN /\ db' = d
        /\ disk' = persist(d, disk)
  /\ pc' = "idle"
  /\ call' = NoCall
  /\ written' = <<>>
  /\ UNCHANGED <<pending, clock, local, budget, crashes, hist>>

\* second half of exec: (db as any).__persist?.()
Persist ==
  /\ pending
  /\ disk' = persist(db, disk)
  /\ written' = Append(written, disk')
  /\ pending' = FALSE
  /\ UNCHANGED <<db, pc, clock, local, call, budget, crashes, hist>>

Tick ==
  /\ clock < MaxClock
  /\ clock' = clock + 1
  /\ UNCHANGED <<db, disk, pc, pending, local, call, written, budget, crashes,
                 hist>>

\* the process stops; memory is lost, the file stays as it is
Crash ==
  /\ pc # "closed"
  /\ crashes < MaxCrashes
  /\ crashes' = crashes + 1
  /\ db' = NewDatabase
  /\ pc' = "closed"
  /\ pending' = FALSE
  /\ local' = NoLocal
  /\ UNCHANGED <<disk, clock, call, written, budget, hist>>

\* ------------------------------------------------------------ repository
RowIds(rows) == {rows[i].id : i \in DOMAIN rows}

\* `p_${Math.random()...}`: an id no row of the table has
NewId(rows) == Len(rows) + 1

\* SELECT * FROM projects WHERE id = ?, first row
mutant_getProjectById_any(d, id) == qGet(d.projects)

getProjectById(d, id) == qGet(SelectSeq(d.projects, LAMBDA r : r.id = id))

\* SELECT * FROM projects WHERE lower(name) = lower(?), first row
getProjectByName(d, name) ==
  qGet(SelectSeq(d.projects, LAMBDA r : Lower(r.name) = Lower(name)))

\* idx_projects_name: CREATE UNIQUE INDEX ... ON projects(name), which
\* compares names with the default BINARY collation
NameTaken(rows, name, id) ==
  \E i \in DOMAIN rows : rows[i].name = name /\ rows[i].id # id

\* INSERT INTO projects (...) VALUES (...)
InsertProject(d, row) == [d EXCEPT !.projects = Append(d.projects, row)]

BeginCall(op, ok, id, projectId, old, new, arg) ==
  /\ call' = [op |-> op, ok |-> ok, id |-> id, projectId |-> projectId,
              old |-> old, new |-> new, arg |-> arg, err |-> "",
              params |-> NoParams, pre |-> db]
  /\ written' = <<>>
  /\ budget' = budget - 1

\* a call whose parameters a property needs beyond those BeginCall records
BeginCallWith(op, id, new, arg, params) ==
  /\ call' = [op |-> op, ok |-> TRUE, id |-> id, projectId |-> 0,
              old |-> "", new |-> new, arg |-> arg, err |-> "",
              params |-> params, pre |-> db]
  /\ written' = <<>>
  /\ budget' = budget - 1

\* throw new Error(err), or the error db.run raises
Throw(op, id, projectId, old, new, arg, err) ==
  /\ call' = [op |-> op, ok |-> FALSE, id |-> id, projectId |-> projectId,
              old |-> old, new |-> new, arg |-> arg, err |-> err,
              params |-> NoParams, pre |-> db]
  /\ written' = <<>>
  /\ budget' = budget - 1

CreateProject ==
  /\ Ready
  /\ \E name \in Names :
       LET now == clock
           id == NewId(db.projects)
           row == [id |-> id, name |-> name, status |-> "green",
                   objective |-> Null, createdAt |-> now, updatedAt |-> now]
       IN IF NameTaken(db.projects, name, id)
          THEN \* db.run throws: UNIQUE constraint failed
               /\ Throw("createProject", id, id, "", "", name,
                        "UNIQUE constraint failed")
               /\ UNCHANGED <<db, pending>>
          ELSE /\ BeginCall("createProject", TRUE, id, id, "", "green", name)
               /\ db' = InsertProject(db, row)
               /\ pending' = TRUE
  /\ UNCHANGED <<disk, pc, clock, local, crashes, hist>>

\* { ...existing, ...patch, updatedAt: Date.now() }: the updatedAt written
\* last wins over the one a patch carries
MergeProject(existing, patch, now) ==
  [existing EXCEPT
     !.name = IF patch.name = NoName THEN existing.name ELSE patch.name,
     !.status = IF patch.status = Absent THEN existing.status ELSE patch.status,
     !.objective = IF patch.objective = Absent THEN existing.objective
                   ELSE patch.objective,
     !.updatedAt = now]

\* UPDATE projects SET name=?, status=?, objective=?, ..., updatedAt=? WHERE id=?
mutant_RunUpdateProject_logs(d, u) ==
  [d EXCEPT
     !.projects = [i \in DOMAIN d.projects |->
                     IF d.projects[i].id = u.id THEN u ELSE d.projects[i]],
     !.activity = Append(d.activity,
                    [id |-> NewId(d.activity), projectId |-> u.id,
                     source |-> "human", action |-> "status_changed",
                     detail |-> NoText, createdAt |-> u.updatedAt])]

RunUpdateProject(d, u) ==
  [d EXCEPT
     !.projects = [i \in DOMAIN d.projects |->
                     IF d.projects[i].id = u.id
                     THEN [d.projects[i] EXCEPT
                             !.name = u.name, !.status = u.status,
                             !.objective = u.objective,
                             !.updatedAt = u.updatedAt]
                     ELSE d.projects[i]]]

ProjectPatches ==
  [name : {NoName, <<"A">>},
   status : {Absent} \cup ProjectStatus,
   objective : {Absent} \cup Objectives,
   updatedAt : {None}]

ProjectIdInputs == RowIds(db.projects) \cup MissingIds

UpdateProject ==
  /\ Ready
  /\ \E id \in ProjectIdInputs, patch \in ProjectPatches :
       LET existing == getProjectById(db, id)
       IN IF existing = NoRow
          THEN \* throw new Error("Project not found")
               /\ Throw("updateProject", id, id, "", "", patch.name,
                        "Project not found")
               /\ UNCHANGED <<db, pending>>
          ELSE LET updated == MergeProject(existing, patch, clock)
               IN IF NameTaken(db.projects, updated.name, id)
                  THEN \* db.run throws: UNIQUE constraint failed
                       /\ Throw("updateProject", id, id, existing.status,
                                updated.status, patch.name,
                                "UNIQUE constraint failed")
                       /\ UNCHANGED <<db, pending>>
                  ELSE /\ BeginCall("updateProject", TRUE, id, id,
                                    existing.status, updated.status, patch.name)
                       /\ db' = RunUpdateProject(db, updated)
                       /\ pending' = TRUE
  /\ UNCHANGED <<disk, pc, clock, local, crashes, hist>>

\* INSERT INTO updates (id,projectId,type,text,createdAt) VALUES (...)
InsertUpdate(d, row) == [d EXCEPT !.updates = Append(d.updates, row)]

\* addUpdate, up to its first exec
AddUpdate ==
  /\ Ready
  /\ \E projectId \in ProjectIdInputs, type \in UpdateType, text \in Texts :
       LET now == clock
           id == NewId(db.updates)
       IN /\ BeginCall("addUpdate", TRUE, id, projectId, "", "", text)
          /\ db' = InsertUpdate(db, [id |-> id, projectId |-> projectId,
                                     type |-> type, text |-> text,
                                     createdAt |-> now])
          /\ local' = [NoLocal EXCEPT !.now = now, !.projectId = projectId]
  /\ pending' = TRUE
  /\ pc' = "addUpdate_bump"
  /\ UNCHANGED <<disk, clock, crashes, hist>>

\* addUpdate, "bump project updatedAt":
\* if (proj) this.updateProject({ id: proj.id, updatedAt: now })
AddUpdateBump ==
  /\ pc = "addUpdate_bump"
  /\ ~pending
  /\ LET proj == getProjectById(db, local.projectId)
         patch == [name |-> NoName, status |-> Absent, objective |-> Absent,
                   updatedAt |-> Some(local.now)]
     IN IF proj = NoRow
        THEN UNCHANGED <<db, pending>>
        ELSE /\ db' = RunUpdateProject(db, MergeProject(proj, patch, clock))
             /\ pending' = TRUE
  /\ pc' = "idle"
  /\ local' = NoLocal
  /\ UNCHANGED <<disk, clock, call, written, budget, crashes, hist>>

\* ------------------------------------------------------------------ tasks
Titles == {<<"t">>}
NewTitles == {NoText, <<"u">>}

\* INSERT INTO tasks (id,projectId,title,status,createdAt,updatedAt)
InsertTask(d, row) == [d EXCEPT !.tasks = Append(d.tasks, row)]

AddTask ==
  /\ Ready
  /\ \E projectId \in ProjectIdInputs, title \in Titles,
        st \in {Absent} \cup TaskStatus :
       LET now == clock
           id == NewId(db.tasks)
           status == IF st = Absent THEN "todo" ELSE st
       IN /\ BeginCall("addTask", TRUE, id, projectId, "", status, title)
          /\ db' = InsertTask(db, [id |-> id, projectId |-> projectId,
                                   title |-> title, status |-> status,
                                   createdAt |-> now, updatedAt |-> now])
  /\ pending' = TRUE
  /\ UNCHANGED <<disk, pc, clock, local, crashes, hist>>

\* UPDATE tasks SET title=?, status=?, updatedAt=? WHERE id=?
RunUpdateTask(d, u) ==
  [d EXCEPT
     !.tasks = [i \in DOMAIN d.tasks |->
                  IF d.tasks[i].id = u.id
                  THEN [d.tasks[i] EXCEPT !.title = u.title,
                          !.status = u.status, !.updatedAt = u.updatedAt]
                  ELSE d.tasks[i]]]

TaskIdInputs == RowIds(db.tasks) \cup MissingIds

UpdateTask ==
  /\ Ready
  /\ \E id \in TaskIdInputs, st \in {Absent} \cup TaskStatus,
        title \in NewTitles :
       LET task == qGet(SelectSeq(db.tasks, LAMBDA r : r.id = id))
       IN IF task = NoRow
          THEN \* throw new Error("Task not found")
               /\ Throw("updateTask", id, 0, "", "", title, "Task not found")
               /\ UNCHANGED <<db, pending>>
          ELSE LET updated ==
                     [task EXCEPT
                        !.title = IF title = NoText THEN task.title ELSE title,
                        !.status = IF st = Absent THEN task.status ELSE st,
                        !.updatedAt = clock]
               IN /\ BeginCall("updateTask", TRUE, id, task.projectId,
                               task.status, updated.status, updated.title)
                  /\ db' = RunUpdateTask(db, updated)
                  /\ pending' = TRUE
  /\ UNCHANGED <<disk, pc, clock, local, crashes, hist>>

\* ------------------------------------------------------------------ queue
Instructions == {<<"i">>}
NewInstructions == {NoText, <<"k">>}
RankInputs == {None, Some(1), Some(2)}
NewRanks == {None, Some(1)}

\* SELECT MAX(rank) as m FROM queue; m is null on an empty table
mutant_MaxRank_min(rows) ==
  IF rows = <<>> THEN None
  ELSE Some(CHOOSE m \in {rows[i].rank : i \in DOMAIN rows} :
              \A i \in DOMAIN rows : rows[i].rank >= m)

MaxRank(rows) ==
  IF rows = <<>> THEN None
  ELSE Some(CHOOSE m \in {rows[i].rank : i \in DOMAIN rows} :
              \A i \in DOMAIN rows : rows[i].rank <= m)

\* INSERT INTO queue (id,projectId,instruction,rank,status,source,...)
InsertQueue(d, row) ==
  [d EXCEPT !.queue = Append(d.queue, row), !.qseq = d.qseq + 1]

QueueProjectInputs == {None} \cup {Some(p) : p \in RowIds(db.projects)}

AddQueueItem ==
  /\ Ready
  /\ \E projectId \in QueueProjectInputs, instruction \in Instructions,
        r \in RankInputs, src \in {Absent, "agent"} :
       LET now == clock
           id == db.qseq + 1
           m == MaxRank(db.queue)
           rank == IF r = None
                   THEN (IF m # None THEN The(m) ELSE 0) + 1
                   ELSE The(r)
           source == IF src = Absent THEN "human" ELSE src
       IN /\ BeginCallWith("addQueueItem", id, "pending", instruction,
                           [rank |-> r, source |-> src, before |-> hist.ranks])
          /\ db' = InsertQueue(db, [id |-> id, projectId |-> projectId,
                                    instruction |-> instruction, rank |-> rank,
                                    status |-> "pending", source |-> source,
                                    createdAt |-> now, updatedAt |-> now])
          /\ hist' = [hist EXCEPT !.ranks = hist.ranks \cup {rank}]
  /\ pending' = TRUE
  /\ UNCHANGED <<disk, pc, clock, local, crashes>>

\* UPDATE queue SET status=?, instruction=?, rank=?, updatedAt=? WHERE id=?
RunUpdateQueue(d, u) ==
  [d EXCEPT
     !.queue = [i \in DOMAIN d.queue |->
                  IF d.queue[i].id = u.id
                  THEN [d.queue[i] EXCEPT !.status = u.status,
                          !.instruction = u.instruction, !.rank = u.rank,
                          !.updatedAt = u.updatedAt]
                  ELSE d.queue[i]]]

QueueIdInputs == RowIds(db.queue) \cup MissingIds

UpdateQueueItem ==
  /\ Ready
  /\ \E id \in QueueIdInputs, st \in {Absent} \cup QueueStatus,
        instruction \in NewInstructions, r \in NewRanks :
       LET existing == qGet(SelectSeq(db.queue, LAMBDA q : q.id = id))
       IN IF existing = NoRow
          THEN \* throw new Error("Queue item not found")
               /\ Throw("updateQueueItem", id, 0, "", "", instruction,
                        "Queue item not found")
               /\ UNCHANGED <<db, pending>>
          ELSE LET updated ==
                     [existing EXCEPT
                        !.status = IF st = Absent THEN existing.status ELSE st,
                        !.instruction = IF instruction = NoText
                                        THEN existing.instruction
                                        ELSE instruction,
                        !.rank = IF r = None THEN existing.rank ELSE The(r),
                        !.updatedAt = clock]
               IN /\ BeginCall("updateQueueItem", TRUE, id, 0,
                               existing.status, updated.status,
                               existing.instruction)
                  /\ db' = RunUpdateQueue(db, updated)
                  /\ pending' = TRUE
  /\ UNCHANGED <<disk, pc, clock, local, crashes, hist>>

\* UPDATE queue SET rank=?, updatedAt=? WHERE id=?
mutant_RunReorder_all(d, id, rank, now) ==
  [d EXCEPT
     !.queue = [i \in DOMAIN d.queue |->
                  [d.queue[i] EXCEPT !.rank = rank, !.updatedAt = now]]]

RunReorder(d, id, rank, now) ==
  [d EXCEPT
     !.queue = [i \in DOMAIN d.queue |->
                  IF d.queue[i].id = id
                  THEN [d.queue[i] EXCEPT !.rank = rank, !.updatedAt = now]
                  ELSE d.queue[i]]]

SeqsUpTo(S, n) == UNION {[1..k -> S] : k \in 0..n}

\* reorderQueue(ids): entry; the loop body is ReorderStep
ReorderQueue ==
  /\ Ready
  /\ \E ids \in SeqsUpTo(QueueIdInputs, MaxReorder) :
       /\ BeginCallWith("reorderQueue", 0, "", NoText, [ids |-> ids])
       /\ local' = [NoLocal EXCEPT !.ids = ids, !.i = 1]
       /\ pc' = IF ids = <<>> THEN "idle" ELSE "reorder"
  /\ UNCHANGED <<db, disk, pending, clock, crashes, hist>>

\* one iteration of ids.forEach((id, i) => exec(..., [i + 1, Date.now(), id]));
\* local.i is the 1-based position, which is the rank written
ReorderStep ==
  /\ pc = "reorder"
  /\ ~pending
  /\ db' = RunReorder(db, local.ids[local.i], local.i, clock)
  /\ pending' = TRUE
  /\ IF local.i = Len(local.ids)
     THEN pc' = "idle" /\ local' = NoLocal
     ELSE pc' = pc /\ local' = [local EXCEPT !.i = local.i + 1]
  /\ UNCHANGED <<disk, clock, call, written, budget, crashes, hist>>

\* DELETE FROM queue WHERE id = ?
RunDeleteQueue(d, id) ==
  [d EXCEPT !.queue = SelectSeq(d.queue, LAMBDA q : q.id # id)]

DeleteQueueItem ==
  /\ Ready
  /\ \E id \in QueueIdInputs :
       /\ BeginCall("deleteQueueItem", TRUE, id, 0, "", "", NoText)
       /\ db' = RunDeleteQueue(db, id)
  /\ pending' = TRUE
  /\ UNCHANGED <<disk, pc, clock, local, crashes, hist>>

\* the rows of SELECT * FROM queue WHERE status IN ('pending','in_progress')
ActiveQueue(d) ==
  SelectSeq(d.queue, LAMBDA q : q.status \in {"pending", "in_progress"})

\* the orders ORDER BY rank ASC allows for these rows: SQLite does not fix
\* the order of rows of equal rank, so each such order is a possible result
RankOrders(rows) ==
  LET n == Len(rows)
      ok(p) == \A i \in 1..n : \A j \in 1..n :
                 i < j => rows[p[i]].rank <= rows[p[j]].rank
  IN {[i \in 1..n |-> rows[p[i]]] : p \in {q \in Permutations(1..n) : ok(q)}}

\* listQueue(): the set of lists the query can return
mutant_listQueue_all(d) == RankOrders(d.queue)

mutant_listQueue_desc(d) ==
  LET a == ActiveQueue(d)
      n == Len(a)
  IN {[i \in 1..n |-> r[n + 1 - i]] : r \in RankOrders(a)}

listQueue(d) == RankOrders(ActiveQueue(d))

\* --------------------------------------------------------------- activity
Actions == {"test_action"}
Details == {NoText, <<"d">>}

\* INSERT INTO activity (id,projectId,source,action,detail,createdAt)
InsertActivity(d, row) == [d EXCEPT !.activity = Append(d.activity, row)]

LogActivity ==
  /\ Ready
  /\ \E projectId \in QueueProjectInputs, source \in QueueSource,
        action \in Actions, detail \in Details :
       LET now == clock
           id == NewId(db.activity)
       IN /\ BeginCall("logActivity", TRUE, id, 0, "", "", detail)
          /\ db' = InsertActivity(db, [id |-> id, projectId |-> projectId,
                                       source |-> source, action |-> action,
                                       detail |-> detail, createdAt |-> now])
  /\ pending' = TRUE
  /\ UNCHANGED <<disk, pc, clock, local, crashes, hist>>

\* the rows of activity in the order of ORDER BY createdAt DESC, rowid DESC;
\* the rowid of a row is its position in the table
ActivityNewestFirst(rows) ==
  LET newer(a, b) ==
        \/ rows[a].createdAt > rows[b].createdAt
        \/ rows[a].createdAt = rows[b].createdAt /\ a > b
      order == SortSeq([i \in DOMAIN rows |-> i], newer)
  IN [i \in DOMAIN rows |-> rows[order[i]]]

\* LIMIT ? OFFSET ? with limit >= 0 and offset >= 0: skip offset rows, then
\* keep at most limit rows
LimitOffset(rows, limit, offset) ==
  LET last == IF offset + limit < Len(rows) THEN offset + limit ELSE Len(rows)
  IN IF offset + 1 > last THEN <<>> ELSE SubSeq(rows, offset + 1, last)

\* listActivity(limit, offset)
mutant_listActivity_oldest_first(d, limit, offset) ==
  LimitOffset(d.activity, limit, offset)

listActivity(d, limit, offset) ==
  LimitOffset(ActivityNewestFirst(d.activity), limit, offset)

\* --------------------------------------------------------- cron snapshots
Errors == {Absent, "boom"}

\* UPDATE cron_snapshots SET lastStatus=?, lastError=?, lastSeenAt=? WHERE jobId=?
\* or INSERT INTO cron_snapshots (jobId,lastStatus,lastError,lastSeenAt)
mutant_RunUpsertCron_insert(d, row) ==
  [d EXCEPT !.cron_snapshots = Append(d.cron_snapshots, row)]

RunUpsertCron(d, row) ==
  IF \E i \in DOMAIN d.cron_snapshots : d.cron_snapshots[i].jobId = row.jobId
  THEN [d EXCEPT
          !.cron_snapshots = [i \in DOMAIN d.cron_snapshots |->
                                IF d.cron_snapshots[i].jobId = row.jobId
                                THEN row ELSE d.cron_snapshots[i]]]
  ELSE [d EXCEPT !.cron_snapshots = Append(d.cron_snapshots, row)]

UpsertCronSnapshot ==
  /\ Ready
  /\ \E jobId \in JobIds, lastStatus \in JobStatuses, lastError \in Errors :
       LET now == clock
       IN /\ BeginCallWith("upsertCronSnapshot", 0, lastStatus, NoText,
                           [jobId |-> jobId, lastError |-> lastError,
                            now |-> now])
          /\ db' = RunUpsertCron(db, [jobId |-> jobId, lastStatus |-> lastStatus,
                                      lastError |-> IF lastError = Absent
                                                    THEN Null ELSE lastError,
                                      lastSeenAt |-> now])
  /\ pending' = TRUE
  /\ UNCHANGED <<disk, pc, clock, local, crashes, hist>>

Next ==
  \/ OpenDb
  \/ Persist
  \/ Tick
  \/ Crash
  \/ CreateProject
  \/ UpdateProject
  \/ AddUpdate
  \/ AddUpdateBump
  \/ AddTask
  \/ UpdateTask
  \/ AddQueueItem
  \/ UpdateQueueItem
  \/ ReorderQueue
  \/ ReorderStep
  \/ DeleteQueueItem
  \/ LogActivity
  \/ UpsertCronSnapshot

Spec == Init /\ [][Next]_vars
\* -------------------------------------------------- second specification
\* The file an earlier process left behind: it created one project, one
\* task and one queue item and logged one activity entry, all at time 0.
SeedDb ==
  [migrate(NewDatabase) EXCEPT
     !.projects = <<[id |-> 1, name |-> <<"a">>, status |-> "green",
                     objective |-> Null, createdAt |-> 0, updatedAt |-> 0]>>,
     !.tasks = <<[id |-> 1, projectId |-> 1, title |-> <<"t">>,
                  status |-> "todo", createdAt |-> 0, updatedAt |-> 0]>>,
     !.queue = <<[id |-> 1, projectId |-> None, instruction |-> <<"i">>,
                  rank |-> 1, status |-> "pending", source |-> "human",
                  createdAt |-> 0, updatedAt |-> 0]>>,
     !.qseq = 1,
     !.activity = <<[id |-> 1, projectId |-> None, source |-> "human",
                     action |-> "test_action", detail |-> NoText,
                     createdAt |-> 0]>>]

\* that process handed out rank 1
SeedHist == [NoHist EXCEPT !.ranks = {1}]

InitSeeded ==
  /\ db = NewDatabase
  /\ disk = export(SeedDb)
  /\ pc = "closed"
  /\ pending = FALSE
  /\ clock = 0
  /\ local = NoLocal
  /\ call = NoCall
  /\ written = <<>>
  /\ budget = MaxOps
  /\ crashes = 0
  /\ hist = SeedHist

\* callers that only edit existing rows and log activity
NextEdits ==
  \/ OpenDb
  \/ Persist
  \/ Tick
  \/ UpdateProject
  \/ UpdateTask
  \/ UpdateQueueItem
  \/ LogActivity

SpecSeeded == InitSeeded /\ [][NextEdits]_vars

\* ------------------------------------------- GET /api/state: the cron loop
\* The job registry (cron/jobs.json) as loadCronJobsFromStateDir returns it.
\* A job is [id, name, status, lastAt]; status is Absent when the file gives
\* none, lastAt is None when the file gives no last run time.
JobNames == {<<"b", "-">>}
JobStatusInputs == {Absent, "ok", "error", "failed"}
LastAtInputs == {None, Some(1)}

Jobs ==
  [id : JobIds, name : JobNames, status : JobStatusInputs,
   lastAt : LastAtInputs]

\* registries of at most two jobs, each with an id of its own
JobLists ==
  {<<>>} \cup {<<a>> : a \in Jobs}
         \cup {<<a, b>> : a \in {j \in Jobs : j.id = "j1"},
                          b \in {j \in Jobs : j.id = "j2"}}

\* a JS number or null used as a condition: null and 0 are falsy
Truthy(o) == o # None /\ The(o) # 0

StartsWith(str, prefix) ==
  Len(str) >= Len(prefix) /\ SubSeq(str, 1, Len(prefix)) = prefix

Includes(str, part) ==
  \E i \in 0..(Len(str) - Len(part)) : SubSeq(str, i + 1, i + Len(part)) = part

\* the prefix mapping of mapCronToProjects, with "b-" standing for the job
\* name prefix "burundi-" and "b" for the project name part "burundi", "g"
\* for "goatport"; the first rule whose prefix matches decides
PrefixRules ==
  <<[prefix |-> <<"b", "-">>, key |-> <<"b">>],
    [prefix |-> <<"g">>, key |-> <<"g">>]>>

\* the orders SELECT * FROM projects ORDER BY updatedAt DESC allows
listProjects(d) ==
  LET rows == d.projects
      n == Len(rows)
      ok(p) == \A i \in 1..n : \A j \in 1..n :
                 i < j => rows[p[i]].updatedAt >= rows[p[j]].updatedAt
  IN {[i \in 1..n |-> rows[p[i]]] : p \in {q \in Permutations(1..n) : ok(q)}}

\* lowerProjects.find((p) => pred(p.key))?.id ?? null
FindBy(projects, key) ==
  LET hits == SelectSeq(projects, LAMBDA r : Includes(Lower(r.name), key))
  IN IF hits = <<>> THEN None ELSE Some(hits[1].id)

MapJob(projects, j) ==
  LET lower == Lower(j.name)
      rules == SelectSeq(PrefixRules, LAMBDA r : StartsWith(lower, r.prefix))
  IN [jobId |-> j.id,
      projectId |-> IF rules = <<>> THEN None ELSE FindBy(projects, rules[1].key)]

mapCronToProjects(projects, jobs) ==
  [i \in DOMAIN jobs |-> MapJob(projects, jobs[i])]

\* normCronSnapshot(qGet(SELECT * FROM cron_snapshots WHERE jobId = ?)) or null
getCronSnapshot(d, jobId) ==
  qGet(SelectSeq(d.cron_snapshots, LAMBDA r : r.jobId = jobId))

\* const status = j.status ?? "unknown"
StatusOf(j) == IF j.status = Absent THEN "unknown" ELSE j.status

\* !prev || prev.lastStatus !== status
\*       || (j.lastAt && j.lastAt !== prev.lastSeenAt)
mutant_Changed_always(prev, j) == TRUE

Changed(prev, j) ==
  \/ prev = NoRow
  \/ prev.lastStatus # StatusOf(j)
  \/ Truthy(j.lastAt) /\ The(j.lastAt) # prev.lastSeenAt

\* status === "failure" || status === "error"
mutant_IsFailure_failed(status) == status \in {"failure", "error", "failed"}

IsFailure(status) == status = "failure" \/ status = "error"

\* `${j.name} -> ${status}${j.lastAt ? ` @ ${...toLocaleString()}` : ""}`
UpdateText(j) ==
  j.name \o <<">", StatusOf(j)>>
         \o (IF Truthy(j.lastAt) THEN <<"@", ToString(The(j.lastAt))>>
             ELSE <<>>)

StatusPatch(status) ==
  [name |-> NoName, status |-> status, objective |-> Absent,
   updatedAt |-> None]

\* the databases after each exec of the body of `if (changed)`, in order:
\* upsertCronSnapshot, logActivity, and for a mapped job addUpdate (INSERT,
\* then the updatedAt bump) and the updateProject that sets red or yellow.
\* The project of a mapped job is one listProjects returned in this request
\* and no row is deleted, so getProjectById finds it.
mutant_ChangedWrites_heal(d, j, schedules, now) ==
  LET mapped == SelectSeq(schedules, LAMBDA m : m.jobId = j.id)[1]
      d1 == RunUpsertCron(d, [jobId |-> j.id, lastStatus |-> StatusOf(j),
                              lastError |-> Null, lastSeenAt |-> now])
      d2 == InsertActivity(d1, [id |-> NewId(d1.activity),
                                projectId |-> mapped.projectId,
                                source |-> "agent",
                                action |-> IF IsFailure(StatusOf(j))
                                           THEN "cron_failed" ELSE "cron_ran",
                                detail |-> j.name, createdAt |-> now])
      pid == The(mapped.projectId)
      d3 == RunUpdateProject(d2, MergeProject(getProjectById(d2, pid),
                                              StatusPatch("green"), now))
  IN IF mapped.projectId = None THEN <<d1, d2>> ELSE <<d1, d2, d3>>

ChangedWrites(d, j, schedules, now) ==
  LET mapped == SelectSeq(schedules, LAMBDA m : m.jobId = j.id)[1]
      status == StatusOf(j)
      d1 == RunUpsertCron(d, [jobId |-> j.id, lastStatus |-> status,
                              lastError |-> Null, lastSeenAt |-> now])
      d2 == InsertActivity(d1, [id |-> NewId(d1.activity),
                                projectId |-> mapped.projectId,
                                source |-> "agent",
                                action |-> IF IsFailure(status)
                                           THEN "cron_failed" ELSE "cron_ran",
                                detail |-> j.name, createdAt |-> now])
      pid == The(mapped.projectId)
      d3 == InsertUpdate(d2, [id |-> NewId(d2.updates), projectId |-> pid,
                              type |-> IF IsFailure(status)
                                       THEN "blocker" ELSE "progress",
                              text |-> UpdateText(j), createdAt |-> now])
      bump == [name |-> NoName, status |-> Absent, objective |-> Absent,
               updatedAt |-> Some(now)]
      d4 == RunUpdateProject(d3, MergeProject(getProjectById(d3, pid),
                                              bump, now))
      d5 == RunUpdateProject(d4, MergeProject(getProjectById(d4, pid),
                                              StatusPatch("red"), now))
      d6 == RunUpdateProject(d4, MergeProject(getProjectById(d4, pid),
                                              StatusPatch("yellow"), now))
  IN IF mapped.projectId = None THEN <<d1, d2>>
     ELSE IF IsFailure(status) THEN <<d1, d2, d3, d4, d5>>
     ELSE IF status = "unknown" THEN <<d1, d2, d3, d4, d6>>
     ELSE <<d1, d2, d3, d4>>

\* GET /api/state from `const projects = repo.listProjects()` to the cron
\* loop: the registry is read once and every job is mapped to a project
LoadCronJobs ==
  /\ Ready
  /\ \E jobs \in JobLists, projects \in listProjects(db) :
       /\ BeginCallWith("getState", 0, "", NoText, [jobs |-> jobs])
       /\ local' = [NoLocal EXCEPT
                      !.jobs = jobs, !.i = 1,
                      !.schedules = mapCronToProjects(projects, jobs)]
       /\ pc' = IF jobs = <<>> THEN "idle" ELSE "cron_loop"
  /\ UNCHANGED <<db, disk, pending, clock, crashes, hist>>

\* one iteration of `for (const j of jobs)`; every exec of the iteration
\* rewrites the file, and the iteration runs within one millisecond
CronLoopStep ==
  /\ pc = "cron_loop"
  /\ LET j == local.jobs[local.i]
         prev == getCronSnapshot(db, j.id)
         dbs == IF Changed(prev, j)
                THEN ChangedWrites(db, j, local.schedules, clock)
                ELSE <<>>
     IN /\ db' = IF dbs = <<>> THEN db ELSE dbs[Len(dbs)]
        /\ disk' = IF dbs = <<>> THEN disk ELSE persist(dbs[Len(dbs)], disk)
        /\ written' = written \o [k \in DOMAIN dbs |-> persist(dbs[k], disk)]
        /\ hist' = [hist EXCEPT
                      !.iter = [job |-> j, pre |-> db, writes |-> Len(dbs),
                                schedules |-> local.schedules, now |-> clock]]
  /\ IF local.i = Len(local.jobs)
     THEN pc' = "idle" /\ local' = NoLocal
     ELSE pc' = pc /\ local' = [local EXCEPT !.i = local.i + 1]
  /\ UNCHANGED <<pending, clock, call, budget, crashes>>

\* --------------------------------------------------- third specification
\* callers that work on the queue of that file
NextQueue ==
  \/ OpenDb
  \/ Persist
  \/ Tick
  \/ AddQueueItem
  \/ UpdateQueueItem
  \/ ReorderQueue
  \/ ReorderStep
  \/ DeleteQueueItem

SpecQueue == InitSeeded /\ [][NextQueue]_vars

\* -------------------------------------------------- fourth specification
\* A file whose activity log already holds three entries, logged within the
\* same millisecond, and callers that log more.
ActivitySeedDb ==
  [SeedDb EXCEPT
     !.activity = [i \in 1..3 |->
                     [id |-> i, projectId |-> None, source |-> "human",
                      action |-> "test_action", detail |-> NoText,
                      createdAt |-> 0]]]

InitActivity ==
  /\ db = NewDatabase
  /\ disk = export(ActivitySeedDb)
  /\ pc = "closed"
  /\ pending = FALSE
  /\ clock = 0
  /\ local = NoLocal
  /\ call = NoCall
  /\ written = <<>>
  /\ budget = MaxOps
  /\ crashes = 0
  /\ hist = SeedHist

NextActivity ==
  \/ OpenDb
  \/ Persist
  \/ Tick
  \/ LogActivity

SpecActivity == InitActivity /\ [][NextActivity]_vars

\* --------------------------------------------------- fifth specification
\* The dashboard server on a file that holds one project, named "a" or "b"
\* and of any status, and at most one cron snapshot, all written at time 0;
\* GET /api/state refreshes the dashboard and callers edit the project.
CronSeeds ==
  {[migrate(NewDatabase) EXCEPT
      !.projects = <<[id |-> 1, name |-> name, status |-> status,
                      objective |-> Null, createdAt |-> 0, updatedAt |-> 0]>>,
      !.cron_snapshots = snaps] :
     name \in {<<"a">>, <<"b">>}, status \in ProjectStatus,
     snaps \in {<<>>, <<[jobId |-> "j1", lastStatus |-> "ok",
                          lastError |-> Null, lastSeenAt |-> 0]>>}}

InitCron ==
  /\ db = NewDatabase
  /\ disk \in {export(d) : d \in CronSeeds}
  /\ pc = "closed"
  /\ pending = FALSE
  /\ clock = 0
  /\ local = NoLocal
  /\ call = NoCall
  /\ written = <<>>
  /\ budget = MaxRefresh
  /\ crashes = 0
  /\ hist = NoHist

NextCron ==
  \/ OpenDb
  \/ Persist
  \/ Tick
  \/ UpdateProject
  \/ LoadCronJobs
  \/ CronLoopStep

SpecCron == InitCron /\ [][NextCron]_vars


\* --------------------------------------------------------- health derivation
DayMs == 86400000                  \* 24 * 60 * 60 * 1000

\* String.prototype.toLowerCase on the status strings used here
LowerWord(w) ==
  CASE w = "ERROR" -> "error"
    [] w = "Failed" -> "failed"
    [] OTHER -> w

\* typeof x === "number" && x > 0 ? x : null
Positive(o) == IF o # None /\ The(o) > 0 THEN o ELSE None

\* deriveHealth(params) at time now; params is NoRow for null or undefined
deriveHealth(params, now) ==
  IF params = NoRow THEN "yellow"
  ELSE LET status == LowerWord(IF params.lastStatus = Null THEN "unknown"
                               ELSE params.lastStatus)
           seenAt == Positive(params.lastSeenAt)
           lastAt == Positive(params.lastAt)
           ts == IF seenAt # None THEN seenAt ELSE lastAt
       IN IF status \in {"error", "failure", "failed"} THEN "red"
          ELSE IF ts = None THEN "yellow"
          ELSE IF now - The(ts) > DayMs THEN "yellow"
          ELSE "green"

\* ---------------------------------------------------- sixth specification
\* deriveHealth applied, at a time two days after time 0, to every
\* combination of a status and of two timestamps that are missing, zero,
\* older than 24 hours, exactly 24 hours old or current
HealthStatuses == {Null, "ok", "unknown", "error", "ERROR", "failure", "Failed"}

HealthNow == 2 * DayMs

HealthTimes ==
  {None, Some(0), Some(HealthNow - DayMs - 1), Some(HealthNow - DayMs),
   Some(HealthNow)}

HealthParams ==
  {NoRow} \cup [lastStatus : HealthStatuses, lastSeenAt : HealthTimes,
                lastAt : HealthTimes]

InitHealth ==
  /\ db = NewDatabase
  /\ disk = NoFile
  /\ pc = "closed"
  /\ pending = FALSE
  /\ clock = HealthNow
  /\ local = NoLocal
  /\ call = NoCall
  /\ written = <<>>
  /\ budget = MaxOps
  /\ crashes = 0
  /\ hist = NoHist

\* a caller (the cronHealth map of GET /api/state and GET /api/cron)
\* evaluates deriveHealth
DeriveHealth ==
  /\ budget > 0
  /\ \E params \in HealthParams :
       call' = [NoCall EXCEPT !.op = "deriveHealth", !.params = params,
                              !.new = deriveHealth(params, clock)]
  /\ budget' = budget - 1
  /\ UNCHANGED <<db, disk, pc, pending, clock, local, written, crashes, hist>>

NextHealth == DeriveHealth

SpecHealth == InitHealth /\ [][NextHealth]_vars

\* ------------------------------------------------------- job registry file
\* <stateDir>/cron/jobs.json as the file system presents it to a read:
\* absent, present but not readable, or a text
MissingFile == [kind |-> "missing"]
UnreadableFile == [kind |-> "unreadable"]
TextFile(json) == [kind |-> "text", json |-> json]

\* what JSON.parse makes of the text: a SyntaxError, or a value
Malformed == [json |-> "malformed"]
JsonNull == [json |-> "null"]
JsonUndefined == [json |-> "undefined"]
JsonArray(items) == [json |-> "array", items |-> items]
JsonObject(jobs) == [json |-> "object", jobs |-> jobs]

NoRawState == [lastStatus |-> Absent, lastRunAtMs |-> None]

RawStates ==
  {[lastStatus |-> "error", lastRunAtMs |-> Some(1)],
   NoRawState}

\* an element of the jobs array: null, or an object
RawJobs ==
  {JsonNull} \cup
  [json : {"job"}, id : {Absent, "j1"}, jobId : {Absent, "j2"},
   name : {NoName} \cup JobNames, status : {Absent, "ok"},
   state : {JsonUndefined} \cup RawStates]

RawArrays == {JsonArray(<<>>)} \cup {JsonArray(<<r>>) : r \in RawJobs}

RegistryFiles ==
  {MissingFile, UnreadableFile} \cup
  {TextFile(v) : v \in {Malformed, JsonNull, JsonObject(JsonUndefined)}
                       \cup RawArrays \cup {JsonObject(a) : a \in RawArrays}}

\* Array.isArray(json?.jobs) ? json.jobs : Array.isArray(json) ? json : []
JobsArray(v) ==
  IF v.json = "object" /\ v.jobs.json = "array" THEN v.jobs.items
  ELSE IF v.json = "array" THEN v.items
  ELSE <<>>

\* the object the map callback returns for one element
MapRawJob(r) ==
  LET st == IF r.state = JsonUndefined THEN NoRawState ELSE r.state
  IN [id |-> IF r.id # Absent THEN r.id
             ELSE IF r.jobId # Absent THEN r.jobId ELSE "",
      name |-> r.name,
      status |-> IF st.lastStatus # Absent THEN st.lastStatus ELSE r.status,
      lastAt |-> st.lastRunAtMs]

\* the error the call raises, "" when it returns
LoadError(file) ==
  IF file.kind = "missing" THEN ""
  ELSE IF file.kind = "unreadable" THEN "EACCES"
  ELSE IF file.json = Malformed THEN "SyntaxError"
  ELSE IF \E k \in DOMAIN JobsArray(file.json) :
            JobsArray(file.json)[k] = JsonNull
       THEN "TypeError"
  ELSE ""

\* the jobs the call returns when it returns
loadCronJobsFromStateDir(file) ==
  IF file.kind = "missing" THEN <<>>
  ELSE LET raw == JobsArray(file.json)
           mapped == [k \in DOMAIN raw |-> MapRawJob(raw[k])]
       IN SelectSeq(mapped, LAMBDA j : j.id # "" /\ j.name # <<>>)

\* loadCronJobsFromStateDir by itself
LoadRegistry ==
  /\ Ready
  /\ \E file \in RegistryFiles :
       call' = [NoCall EXCEPT
                  !.op = "loadCronJobsFromStateDir",
                  !.ok = LoadError(file) = "",
                  !.err = LoadError(file),
                  !.params = [file |-> file,
                              jobs |-> IF LoadError(file) = ""
                                       THEN loadCronJobsFromStateDir(file)
                                       ELSE <<>>],
                  !.pre = db]
  /\ written' = <<>>
  /\ budget' = budget - 1
  /\ UNCHANGED <<db, disk, pc, pending, clock, local, crashes, hist>>

\* the element of the GET /api/cron response for job j
CronHealthOf(d, j, now) ==
  LET snap == getCronSnapshot(d, j.id)
      lastStatus == IF j.status # Absent THEN j.status
                    ELSE IF snap # NoRow THEN snap.lastStatus ELSE "unknown"
      lastSeenAt == IF snap = NoRow THEN None ELSE Some(snap.lastSeenAt)
  IN [id |-> j.id, lastStatus |-> lastStatus, lastSeenAt |-> lastSeenAt,
      health |-> deriveHealth([lastStatus |-> lastStatus,
                               lastSeenAt |-> lastSeenAt,
                               lastAt |-> j.lastAt], now)]

\* GET /api/cron: nothing catches what the registry read raises, so the
\* handler's promise rejects and no response is written (ok = FALSE)
GetCron ==
  /\ Ready
  /\ \E file \in RegistryFiles :
       LET err == LoadError(file)
           jobs == IF err = "" THEN loadCronJobsFromStateDir(file) ELSE <<>>
       IN call' = [NoCall EXCEPT
                     !.op = "getCron", !.ok = err = "", !.err = err,
                     !.params = [file |-> file, jobs |-> jobs,
                                 response |->
                                   [k \in DOMAIN jobs |->
                                      CronHealthOf(db, jobs[k], clock)]],
                     !.pre = db]
  /\ written' = <<>>
  /\ budget' = budget - 1
  /\ UNCHANGED <<db, disk, pc, pending, clock, local, crashes, hist>>

\* GET /api/state from `const projects = repo.listProjects()` on, reading the
\* registry from the file: what the read raises is not caught either
GetStateRegistry ==
  /\ Ready
  /\ \E file \in RegistryFiles, projects \in listProjects(db) :
       LET err == LoadError(file)
           jobs == IF err = "" THEN loadCronJobsFromStateDir(file) ELSE <<>>
       IN /\ call' = [NoCall EXCEPT
                        !.op = "getState", !.ok = err = "", !.err = err,
                        !.params = [file |-> file, jobs |-> jobs],
                        !.pre = db]
          /\ local' = IF jobs = <<>> THEN NoLocal
                      ELSE [NoLocal EXCEPT
                              !.jobs = jobs, !.i = 1,
                              !.schedules = mapCronToProjects(projects, jobs)]
          /\ pc' = IF jobs = <<>> THEN "idle" ELSE "cron_loop"
  /\ written' = <<>>
  /\ budget' = budget - 1
  /\ UNCHANGED <<db, disk, pending, clock, crashes, hist>>

\* ------------------------------------------------- seventh specification
\* requests that read the job registry, whatever the file holds
NextRegistry ==
  \/ OpenDb
  \/ LoadRegistry
  \/ GetCron
  \/ GetStateRegistry
  \/ CronLoopStep

SpecRegistry == InitCron /\ [][NextRegistry]_vars

\* ------------------------------------------------------- lazy repository
\* getRepo and the promise it caches, with several callers in flight.  In
\* this part `local` holds the closure of register: repoPromise (0 is null,
\* k the promise of the k-th openDb invocation), the invocations in flight,
\* resolved and rejected, and where every caller stands.
Callers == {"http1", "http2", "cmd"}

NoCaller == [at |-> "start", promise |-> 0, repo |-> 0, during |-> "none"]

NoRepo ==
  [repoPromise |-> 0, opens |-> 0, inflight |-> {}, resolved |-> {},
   rejected |-> {}, callers |-> [c \in Callers |-> NoCaller]]

\* if (!repoPromise)
mutant_NeedsOpen_unsettled(l) == l.repoPromise \notin l.resolved

NeedsOpen(l) == l.repoPromise = 0

\* getRepo(), which runs to its return without yielding; the caller then
\* awaits the promise it was handed
GetRepo ==
  /\ \E c \in Callers :
       /\ local.callers[c].at = "start"
       /\ LET k == local.opens + 1
              p == IF NeedsOpen(local) THEN k ELSE local.repoPromise
          IN /\ local' = [local EXCEPT
                  !.repoPromise = p,
                  !.opens = IF NeedsOpen(local) THEN k ELSE @,
                  !.inflight = IF NeedsOpen(local) THEN @ \cup {k} ELSE @,
                  !.callers[c] = [at |-> "awaiting", promise |-> p,
                                  repo |-> 0, during |-> pc]]
             /\ pc' = IF NeedsOpen(local) THEN "opening" ELSE pc
  /\ UNCHANGED <<db, disk, pending, clock, call, written, budget, crashes,
                 hist>>

\* openDb(dbFile).then((db) => makeRepo(db)) of invocation k resolves
OpenDbResolve ==
  /\ \E k \in local.inflight :
       local' = [local EXCEPT !.inflight = @ \ {k},
                              !.resolved = @ \cup {k}]
  /\ LET loaded == IF disk.exists THEN Database(disk) ELSE NewDatabase
         d == migrate(loaded)
     IN /\ db' = d
        /\ disk' = persist(d, disk)
  /\ pc' = "idle"
  /\ UNCHANGED <<pending, clock, call, written, budget, crashes, hist>>

\* invocation k rejects: initSqlJs, readFileSync or new SQL.Database raised
OpenDbReject ==
  /\ \E k \in local.inflight :
       local' = [local EXCEPT !.inflight = @ \ {k},
                              !.rejected = @ \cup {k}]
  /\ pc' = "failed"
  /\ UNCHANGED <<db, disk, pending, clock, call, written, budget, crashes,
                 hist>>

\* `await getRepo()` continues: the caller holds the repository of the
\* invocation behind its promise, or the rejection is raised in it
AwaitRepo ==
  /\ \E c \in Callers :
       LET k == local.callers[c].promise
       IN /\ local.callers[c].at = "awaiting"
          /\ k \in local.resolved \cup local.rejected
          /\ local' = [local EXCEPT
               !.callers[c].at = IF k \in local.resolved THEN "has"
                                 ELSE "threw",
               !.callers[c].repo = IF k \in local.resolved THEN k ELSE 0]
  /\ UNCHANGED <<db, disk, pc, pending, clock, call, written, budget,
                 crashes, hist>>

\* --------------------------------------------------- eighth specification
\* concurrent requests and commands of one process, from its start
InitRepo ==
  /\ db = NewDatabase
  /\ disk \in {NoFile} \cup {export(d) : d \in CronSeeds}
  /\ pc = "closed"
  /\ pending = FALSE
  /\ clock = 0
  /\ local = NoRepo
  /\ call = NoCall
  /\ written = <<>>
  /\ budget = MaxOps
  /\ crashes = 0
  /\ hist = NoHist

NextRepo ==
  \/ GetRepo
  \/ OpenDbResolve
  \/ OpenDbReject
  \/ AwaitRepo

SpecRepo == InitRepo /\ [][NextRepo]_vars

\* ---------------------------------------------- seeding and ingestion
\* Project names, one or two characters standing for each: the lower-cased
\* stand-in contains "g" or "b" exactly when the lower-cased name contains
\* "goatport" or "burundi".
InboxName == <<"I", "n">>           \* "Inbox / Triage"
ResearchName == <<"R">>             \* "Research / Opportunities"
IdeasName == <<"I", "d">>           \* "Ideas / Backlog"
GoatPortName == <<"G">>             \* "GoatPort (SaaS)"
GlobalCoderName == <<"C">>          \* "Global Coder (Bujumbura center ...)"
GrantsName == <<"O", "1">>          \* "OCI - Grants Pipeline"
DonorsName == <<"O", "2">>          \* "OCI - Donor Outreach / Major Donors"
SponsorshipName == <<"O", "3">>     \* "OCI - Sponsorship Program Growth"
BurundiName == <<"O", "b">>         \* "OCI - Burundi Medical Camp / ..."
ChurchName == <<"O", "c">>          \* "OCI - Church Outreach (...)"
AutomationName == <<"S">>           \* "OpenClaw Automation System"
DashboardName == <<"D">>            \* "OpenClaw Project Dashboard (...)"

ImportedText == <<"m">>             \* "Imported from workspace memory."
DetectedText(n) == <<"d", ToString(n)>>  \* "Detected n ... cron job(s) ..."
BaselineText == <<"a">>             \* "Auto-created baseline project."

Seed(name, seedUpdate) == [name |-> name, seedUpdate |-> seedUpdate]

\* the seeds whose lower-cased name no earlier seed has, in order
KeepFirst(seeds) ==
  LET keep == {i \in DOMAIN seeds :
                 \A j \in 1..(i - 1) :
                   Lower(seeds[j].name) # Lower(seeds[i].name)}
  IN [k \in 1..Cardinality(keep) |->
        seeds[CHOOSE i \in keep : Cardinality({j \in keep : j <= i}) = k]]

\* inferSeedProjects: ws.found is the set of keywords the memory files
\* contain, jobs the registry as loadCronJobsFromStateDir returns it
inferSeedProjects(ws, jobs) ==
  LET church == Len(SelectSeq(jobs, LAMBDA j :
                      StartsWith(Lower(j.name), <<"c", "-">>)))
      burundi == Len(SelectSeq(jobs, LAMBDA j :
                       StartsWith(Lower(j.name), <<"b", "-">>)))
      seeds ==
        (IF "goatport" \in ws.found
         THEN <<Seed(GoatPortName, ImportedText)>> ELSE <<>>)
        \o (IF "global coder" \in ws.found
            THEN <<Seed(GlobalCoderName, ImportedText)>> ELSE <<>>)
        \o (IF "oci" \in ws.found
            THEN <<Seed(GrantsName, ImportedText),
                   Seed(DonorsName, ImportedText),
                   Seed(SponsorshipName, ImportedText),
                   Seed(BurundiName, ImportedText),
                   Seed(ChurchName, ImportedText)>>
            ELSE <<>>)
        \o <<Seed(AutomationName, ImportedText),
             Seed(DashboardName, ImportedText)>>
        \o (IF church > 0 THEN <<Seed(ChurchName, DetectedText(church))>>
            ELSE <<>>)
        \o (IF burundi > 0 THEN <<Seed(BurundiName, DetectedText(burundi))>>
            ELSE <<>>)
  IN KeepFirst(seeds)

Required == <<InboxName, ResearchName, IdeasName>>

\* createProject(name) on database d, once its exec has returned
RunCreateProject(d, name, now) ==
  InsertProject(d, [id |-> NewId(d.projects), name |-> name,
                    status |-> "green", objective |-> Null,
                    createdAt |-> now, updatedAt |-> now])

\* addUpdate on database d, once both its execs have returned
RunAddUpdate(d, projectId, type, text, now) ==
  LET d1 == InsertUpdate(d, [id |-> NewId(d.updates), projectId |-> projectId,
                             type |-> type, text |-> text, createdAt |-> now])
      proj == getProjectById(d1, projectId)
      bump == [name |-> NoName, status |-> Absent, objective |-> Absent,
               updatedAt |-> Some(now)]
  IN IF proj = NoRow THEN d1
     ELSE RunUpdateProject(d1, MergeProject(proj, bump, now))

\* addQueueItem without a rank on database d
RunAddQueueItem(d, projectId, instruction, source, now) ==
  LET m == MaxRank(d.queue)
  IN InsertQueue(d, [id |-> d.qseq + 1, projectId |-> Some(projectId),
                     instruction |-> instruction,
                     rank |-> (IF m # None THEN The(m) ELSE 0) + 1,
                     status |-> "pending", source |-> source,
                     createdAt |-> now, updatedAt |-> now])

\* the body of `for (const s of seeds)` in ensureSeeded
SeedOne(d, s, now) ==
  IF getProjectByName(d, s.name) # NoRow THEN d
  ELSE LET d1 == RunCreateProject(d, s.name, now)
       IN RunAddUpdate(d1, getProjectByName(d1, s.name).id, "note",
                       s.seedUpdate, now)

\* repo.getProjectByName(name) ?? repo.createProject(name)
ensureProject(d, name, now) ==
  IF getProjectByName(d, name) # NoRow THEN d
  ELSE RunCreateProject(d, name, now)

\* typeof repo.hasIngestion === "function" ? ... : (_) => false, with the
\* repository makeRepo builds, which has no hasIngestion and no markIngestion
hasIngestion(d, key) == FALSE

\* entries of the .learnings files: the file, the id and the Status and
\* Priority lines of the block, the project mapTextToProjectName gives the
\* block, and the line and summary built from it
LearningEntries ==
  <<[file |-> "ERRORS.md", id |-> "E1", status |-> "pending",
     priority |-> "high", project |-> GoatPortName, line |-> <<"E", "1">>,
     summary |-> <<"s", "1">>],
    [file |-> "LEARNINGS.md", id |-> "L1", status |-> "resolved",
     priority |-> "", project |-> AutomationName, line |-> <<"L", "1">>,
     summary |-> <<"s", "2">>],
    [file |-> "LEARNINGS.md", id |-> "L2", status |-> "pending",
     priority |-> "", project |-> AutomationName, line |-> <<"L", "2">>,
     summary |-> <<"s", "3">>]>>

Unresolved(e) == e.status \notin {"", "resolved", "promoted"}

\* `${pr}${line}`
LearningText(e) ==
  (IF e.priority = "" THEN <<>> ELSE <<"P", e.priority>>) \o e.line

\* `Resolve ${id}: ${summary || ...}`
LearningInstruction(e) == <<"R", e.id>> \o e.summary

\* the body of `for (const b of blocks)` in ingestLearnings
IngestEntry(d, e, now) ==
  IF ~Unresolved(e) \/ hasIngestion(d, <<e.file, e.id, e.status>>) THEN d
  ELSE LET d1 == ensureProject(d, e.project, now)
           pid == getProjectByName(d1, e.project).id
           d2 == RunAddUpdate(d1, pid,
                              IF e.file = "ERRORS.md" THEN "blocker"
                              ELSE IF e.file = "FEATURE_REQUESTS.md"
                                   THEN "request" ELSE "note",
                              LearningText(e), now)
       IN IF e.file = "ERRORS.md" /\ e.priority \in {"high", "critical"}
          THEN RunAddQueueItem(d2, pid, LearningInstruction(e), "agent", now)
          ELSE d2

\* memory/<date>.md files in name order, each with its text
MemoryFiles ==
  <<[name |-> "2026-01-01.md", top |-> <<"x">>],
    [name |-> "2026-01-02.md", top |-> <<"y">>],
    [name |-> "2026-01-03.md", top |-> <<"z">>]>>

DaysBack == 2

\* `Memory ingest (${f}): ${top.slice(0, 220)}`
MemoryText(f) == <<"M", f.name>> \o f.top

IngestMemoryFile(d, f, now) ==
  IF hasIngestion(d, <<f.name, f.top>>) THEN d
  ELSE LET d1 == ensureProject(d, AutomationName, now)
       IN RunAddUpdate(d1, getProjectByName(d1, AutomationName).id, "note",
                       MemoryText(f), now)

\* .sort().slice(-daysBack)
LastFiles(files) ==
  SubSeq(files, IF Len(files) > DaysBack THEN Len(files) - DaysBack + 1 ELSE 1,
         Len(files))

\* what a refresh finds in the workspace and the state directory
Workspaces ==
  [found : {{}, {"goatport", "oci"}},
   learnings : {<<>>, LearningEntries},
   memory : {<<>>, MemoryFiles},
   registry : {MissingFile, TextFile(Malformed)}
                \cup {TextFile(JsonArray(<<[json |-> "job", id |-> "j1",
                                            jobId |-> Absent,
                                            name |-> <<"b", "-">>,
                                            status |-> "ok", state |-> st]>>)) :
                        st \in {JsonUndefined} \cup RawStates}]

NoWorkspace == [none |-> TRUE]

\* d without the projects no rule of mapCronToProjects can find: find()
\* returns the first project whose name contains the key, so the orders of
\* these projects decide the mapping as the orders of all projects do
FindableProjects(d) ==
  [d EXCEPT !.projects =
     SelectSeq(d.projects, LAMBDA r :
       \E k \in DOMAIN PrefixRules :
         Includes(Lower(r.name), PrefixRules[k].key))]

\* const seeds = inferSeedProjects(params), then the required names pushed
SeedsOf(ws, jobs) ==
  inferSeedProjects(ws, jobs)
    \o [i \in DOMAIN Required |-> Seed(Required[i], BaselineText)]

\* what the request has to go through before the cron loop: the seeds of
\* ensureSeeded, the blocks ingestLearnings reads and the files
\* ingestDailyMemory keeps
RefreshWork(seeds, ws) ==
  [i \in DOMAIN seeds |-> [kind |-> "seed", item |-> seeds[i]]]
    \o [i \in DOMAIN ws.learnings |-> [kind |-> "learning", item |-> ws.learnings[i]]]
    \o [i \in DOMAIN LastFiles(ws.memory) |->
          [kind |-> "memory", item |-> LastFiles(ws.memory)[i]]]

\* GET /api/state with bootstrapOnEmpty on: entry.  What the registry read
\* raises inside inferSeedProjects leaves the handler before anything is
\* written; otherwise ensureSeeded and the ingestion follow, one item for
\* each RefreshStep.
GetStateRefresh ==
  /\ Ready
  /\ \E ws \in Workspaces :
       LET err == LoadError(ws.registry)
           jobs == IF err = "" THEN loadCronJobsFromStateDir(ws.registry)
                   ELSE <<>>
           prev == IF call.op = "getState" THEN call.params.ws
                   ELSE NoWorkspace
       IN /\ call' = [NoCall EXCEPT
                        !.op = "getState", !.ok = err = "", !.err = err,
                        !.params = [ws |-> ws, prev |-> prev, jobs |-> jobs,
                                    seeded |-> db],
                        !.pre = db]
          /\ \E seeds \in {SeedsOf(ws, jobs)} :
               local' = IF err = ""
                        THEN [work |-> RefreshWork(seeds, ws), i |-> 1,
                              jobs |-> jobs]
                        ELSE NoLocal
          /\ pc' = IF err = "" THEN "refresh" ELSE "idle"
  /\ written' = <<>>
  /\ budget' = budget - 1
  /\ UNCHANGED <<db, disk, pending, clock, crashes, hist>>

\* one iteration of the loop of ensureSeeded, ingestLearnings or
\* ingestDailyMemory; after the last one, `const projects =
\* repo.listProjects()` and the mapping of the jobs, which lead to the cron
\* loop.  written keeps the last image an iteration wrote.
RefreshStep ==
  /\ pc = "refresh"
  /\ LET work == local.work
         w == work[local.i]
         d == IF w.kind = "seed" THEN SeedOne(db, w.item, clock)
              ELSE IF w.kind = "learning" THEN IngestEntry(db, w.item, clock)
              ELSE IngestMemoryFile(db, w.item, clock)
     IN /\ db' = d
        /\ disk' = IF d = db THEN disk ELSE persist(d, disk)
        /\ written' = IF d = db THEN written ELSE <<persist(d, disk)>>
        /\ call' = IF w.kind = "seed"
                   THEN [call EXCEPT !.params.seeded = d] ELSE call
        /\ IF local.i < Len(work)
           THEN /\ local' = [local EXCEPT !.i = local.i + 1]
                /\ pc' = pc
           ELSE /\ \E projects \in listProjects(FindableProjects(d)) :
                     local' = IF local.jobs = <<>> THEN NoLocal
                              ELSE [NoLocal EXCEPT
                                      !.jobs = local.jobs, !.i = 1,
                                      !.schedules =
                                        mapCronToProjects(projects, local.jobs)]
                /\ pc' = IF local.jobs = <<>> THEN "idle" ELSE "cron_loop"
  /\ UNCHANGED <<pending, clock, budget, crashes, hist>>

\* ---------------------------------------------------- ninth specification
\* refreshes of the dashboard over a workspace that may change in between;
\* the database is new, or holds a project a user named "inbox / triage"
RefreshSeeds ==
  {migrate(NewDatabase),
   [migrate(NewDatabase) EXCEPT
      !.projects = <<[id |-> 1, name |-> Lower(InboxName), status |-> "green",
                      objective |-> Null, createdAt |-> 0, updatedAt |-> 0]>>]}

InitRefresh ==
  /\ db = NewDatabase
  /\ disk \in {NoFile} \cup {export(d) : d \in RefreshSeeds}
  /\ pc = "closed"
  /\ pending = FALSE
  /\ clock = 0
  /\ local = NoLocal
  /\ call = NoCall
  /\ written = <<>>
  /\ budget = MaxSeedings
  /\ crashes = 0
  /\ hist = NoHist

NextRefresh ==
  \/ OpenDb
  \/ GetStateRefresh
  \/ RefreshStep
  \/ CronLoopStep

SpecRefresh == InitRefresh /\ [][NextRefresh]_vars

\* ------------------------------------------------------------ HTTP routes
\* body.status of a request: omitted, null, "", a status of the enumeration
\* or another string
BodyStatuses == {Absent, Null, "", "red", "purple"}

\* String(body?.id ?? "").trim(): None stands for the empty string
BodyIds == {None} \cup {Some(id) : id \in ProjectIdInputs}

\* body[key] !== undefined && body[key] !== null
Given(v) == v \notin {Absent, Null}

\* POST /api/projects/update: every given key of the body goes into the
\* patch as it is; updateProject merges and stores it
PostProjectsUpdate ==
  /\ Ready
  /\ \E bid \in BodyIds, name \in {NoName, <<"A">>}, status \in BodyStatuses :
       LET body == [id |-> bid, name |-> name, status |-> status]
           patch == [name |-> name,
                     status |-> IF Given(status) THEN status ELSE Absent,
                     objective |-> Absent, updatedAt |-> None]
           existing == IF bid = None THEN NoRow
                       ELSE getProjectById(db, The(bid))
           updated == MergeProject(existing, patch, clock)
           err == IF bid = None THEN "id required"
                  ELSE IF existing = NoRow THEN "Project not found"
                  ELSE IF NameTaken(db.projects, updated.name, The(bid))
                       THEN "UNIQUE constraint failed"
                  ELSE ""
       IN \E d \in {IF err = "" THEN RunUpdateProject(db, updated) ELSE db} :
          /\ call' = [NoCall EXCEPT
                        !.op = "POST /api/projects/update",
                        !.ok = err = "", !.err = err,
                        !.params = body, !.pre = db]
          /\ db' = d
          /\ disk' = IF err = "" THEN persist(d, disk) ELSE disk
          /\ written' = IF err = "" THEN <<persist(d, disk)>> ELSE <<>>
  /\ budget' = budget - 1
  /\ UNCHANGED <<pc, pending, clock, local, crashes, hist>>

\* POST /api/updates: the status of the body reaches updateProject only
\* when it is green, yellow or red
PostUpdates ==
  /\ Ready
  /\ \E pid \in BodyIds, type \in UpdateType, text \in {NoText} \cup Texts,
        status \in BodyStatuses :
       LET body == [projectId |-> pid, type |-> type, text |-> text,
                    status |-> status]
           valid == status \in ProjectStatus
           existing == IF pid = None THEN NoRow
                       ELSE getProjectById(db, The(pid))
           err == IF pid = None \/ text = NoText
                  THEN "projectId and text required"
                  ELSE IF valid /\ existing = NoRow THEN "Project not found"
                  ELSE ""
       IN \E d1 \in {IF err = "" /\ valid
                     THEN RunUpdateProject(db, MergeProject(existing,
                                                 StatusPatch(status), clock))
                     ELSE db} :
          \E d \in {IF err = ""
                    THEN RunAddUpdate(d1, The(pid), type, text, clock)
                    ELSE db} :
          /\ call' = [NoCall EXCEPT
                        !.op = "POST /api/updates",
                        !.ok = err = "", !.err = err,
                        !.params = body, !.pre = db]
          /\ db' = d
          /\ disk' = IF err = "" THEN persist(d, disk) ELSE disk
          /\ written' = IF err = "" THEN <<persist(d, disk)>> ELSE <<>>
  /\ budget' = budget - 1
  /\ UNCHANGED <<pc, pending, clock, local, crashes, hist>>

\* ---------------------------------------------------- tenth specification
\* the routes that write a project status, and updateProject called with a
\* typed patch
NextHttp ==
  \/ OpenDb
  \/ Persist
  \/ Tick
  \/ UpdateProject
  \/ PostProjectsUpdate
  \/ PostUpdates

SpecHttp == InitSeeded /\ [][NextHttp]_vars

\* ----------------------------------------------------------------- claims
UpdateOps == {"updateProject", "updateTask", "updateQueueItem"}
CompoundOps == {"addUpdate", "reorderQueue"}

\* the activity rows the last call appended
Appended == SubSeq(db.activity, Len(call.pre.activity) + 1, Len(db.activity))

\* the activity rows that existed before the last call are untouched
ActivityKept ==
  /\ Len(db.activity) >= Len(call.pre.activity)
  /\ SubSeq(db.activity, 1, Len(call.pre.activity)) = call.pre.activity

\* the last call appended exactly one activity row, with this action
AppendedOne(action) ==
  /\ ActivityKept
  /\ Len(Appended) = 1
  /\ Appended[1].action = action

LastImage == IF written = <<>> THEN export(call.pre) ELSE written[Len(written)]

\* C1: once openDb has returned, and whenever a repository method has
\* returned or thrown, the file holds exactly the export of the in-memory
\* database.
C1_DiskEqualsExport == Returned => disk = export(db)

C1_Witness ==
  /\ Returned
  /\ call.op = "addUpdate"
  /\ Len(written) = 2
  /\ db.updates # call.pre.updates
  /\ db.projects # call.pre.projects

C3_StatusChangedLogged ==
  (Returned /\ call.op = "updateProject" /\ call.ok /\ call.old # call.new)
    => /\ AppendedOne("status_changed")
       /\ Appended[1].projectId = Some(call.id)

\* C4: an updateTask call that moves a task to "doing" appends exactly one
\* "task_started" entry whose detail is the title, one that moves it to
\* "done" appends exactly one "task_completed" entry, and one that moves it
\* to "todo" appends none.
C4_TaskTransitionLogged ==
  (Returned /\ call.op = "updateTask" /\ call.ok /\ call.old # call.new)
    => CASE call.new = "doing" ->
              AppendedOne("task_started") /\ Appended[1].detail = call.arg
         [] call.new = "done" -> AppendedOne("task_completed")
         [] OTHER -> db.activity = call.pre.activity

\* C5: an updateQueueItem call that moves an item to "in_progress" appends
\* exactly one "queue_picked" entry whose detail is the instruction, one
\* that moves it to "completed" appends exactly one "queue_completed"
\* entry, and one that moves it to "skipped" or "pending" appends none.
C5_QueueTransitionLogged ==
  (Returned /\ call.op = "updateQueueItem" /\ call.ok /\ call.old # call.new)
    => CASE call.new = "in_progress" ->
              AppendedOne("queue_picked") /\ Appended[1].detail = call.arg
         [] call.new = "completed" -> AppendedOne("queue_completed")
         [] OTHER -> db.activity = call.pre.activity

\* C6: an updateProject, updateTask or updateQueueItem call that changes no
\* status leaves the activity log exactly as it was.
C6_NoStatusChangeNoActivity ==
  (Returned /\ call.op \in UpdateOps /\ call.old = call.new)
    => db.activity = call.pre.activity

C6_Witness ==
  /\ Returned
  /\ call.op = "updateProject"
  /\ call.ok
  /\ call.old = call.new
  /\ db.projects # call.pre.projects
  /\ db.activity # <<>>

\* C7: every successful addUpdate appends exactly one "update_added" entry
\* for the update's project, whose detail is a prefix of the text of at
\* most PreviewLen characters.
C7_UpdateAddedLogged ==
  (Returned /\ call.op = "addUpdate" /\ call.ok)
    => /\ AppendedOne("update_added")
       /\ Appended[1].projectId = Some(call.projectId)
       /\ Len(Appended[1].detail) <= PreviewLen
       /\ Appended[1].detail = SubSeq(call.arg, 1, Len(Appended[1].detail))

\* C8: createProject with a name that equals an existing project's name
\* ignoring letter case fails and leaves the projects table unchanged.
C8_CaseInsensitiveUnique ==
  (/\ Returned
   /\ call.op = "createProject"
   /\ \E i \in DOMAIN call.pre.projects :
        Lower(call.pre.projects[i].name) = Lower(call.arg))
    => ~call.ok /\ db.projects = call.pre.projects

\* C9: after a createProject(name) that succeeds with id i, getProjectByName
\* returns the project with id i for every casing of name.
C9_LookupAfterCreate ==
  (Returned /\ call.op = "createProject" /\ call.ok)
    => \A n \in Names :
         Lower(n) = Lower(call.arg) =>
           LET r == getProjectByName(db, n)
           IN IF r = NoRow THEN FALSE ELSE r.id = call.id

\* C10: addUpdate with a projectId that matches no project fails and
\* inserts nothing, so every stored update's projectId is the id of a
\* stored project.
C10_UpdateHasProject ==
  /\ (Returned /\ call.op = "addUpdate"
        /\ call.projectId \notin RowIds(call.pre.projects))
       => ~call.ok /\ db.updates = call.pre.updates
  /\ pc # "closed" =>
       \A i \in DOMAIN db.updates :
         db.updates[i].projectId \in RowIds(db.projects)

\* C11: right after a successful addUpdate to an existing project, the
\* project's updatedAt equals the createdAt of the update just created,
\* however the clock advances inside the call.
C11_BumpEqualsCreatedAt ==
  (/\ Returned
   /\ call.op = "addUpdate"
   /\ call.ok
   /\ call.projectId \in RowIds(call.pre.projects))
    => \E i \in DOMAIN db.updates :
         /\ db.updates[i].id = call.id
         /\ getProjectById(db, call.projectId).updatedAt
              = db.updates[i].createdAt

\* the ids of the rows an update method looks its target up in
TargetIds(op, d) ==
  CASE op = "updateProject" -> RowIds(d.projects)
    [] op = "updateTask" -> RowIds(d.tasks)
    [] op = "updateQueueItem" -> RowIds(d.queue)

NotFoundMessage(op) ==
  CASE op = "updateProject" -> "Project not found"
    [] op = "updateTask" -> "Task not found"
    [] op = "updateQueueItem" -> "Queue item not found"

\* C12: updateProject, updateTask and updateQueueItem called with an id
\* that matches no row raise "Project not found", "Task not found" or
\* "Queue item not found", write nothing to the file and leave every table
\* as it was, so the row is not created.
C12_UpdateMissingThrows ==
  (/\ Returned
   /\ call.op \in UpdateOps
   /\ call.id \notin TargetIds(call.op, call.pre))
    => /\ ~call.ok
       /\ call.err = NotFoundMessage(call.op)
       /\ db = call.pre
       /\ written = <<>>
       /\ disk = export(call.pre)

C12_Witness ==
  /\ Returned
  /\ call.op = "updateQueueItem"
  /\ call.id \in MissingIds
  /\ call.err = "Queue item not found"
  /\ db.queue # <<>>
  /\ budget = 0

\* the queue row the last addQueueItem call inserted
AddedItem == qGet(SelectSeq(db.queue, LAMBDA q : q.id = call.id))

StoredRanks(d) == {d.queue[i].rank : i \in DOMAIN d.queue}

\* the rank, status and source C13 gives the item of an addQueueItem call:
\* without a rank, 1 + the largest stored rank (1 on an empty queue);
\* status pending; source human unless one is given
AddedAsSpecified ==
  /\ AddedItem # NoRow
  /\ AddedItem.status = "pending"
  /\ AddedItem.source = IF call.params.source = Absent THEN "human"
                        ELSE call.params.source
  /\ call.params.rank = None =>
       /\ StoredRanks(call.pre) = {} => AddedItem.rank = 1
       /\ \A m \in StoredRanks(call.pre) :
            (\A k \in StoredRanks(call.pre) : k <= m) => AddedItem.rank = m + 1

\* C13 as stated: an addQueueItem call without a rank gives the item
\* 1 + the largest stored rank (1 on an empty queue), and that rank is
\* greater than every rank handed out before; the item is pending and its
\* source is human unless one is given.
C13_RankAboveAllAssigned ==
  (Returned /\ call.op = "addQueueItem")
    => /\ AddedAsSpecified
       /\ call.params.rank = None =>
            \A k \in call.params.before : AddedItem.rank > k

\* C13 as amended: the rank is greater than every rank stored when the
\* call is made.
C13_RankAboveStored ==
  (Returned /\ call.op = "addQueueItem")
    => /\ AddedAsSpecified
       /\ call.params.rank = None =>
            \A k \in StoredRanks(call.pre) : AddedItem.rank > k

C13_Witness ==
  /\ Returned
  /\ call.op = "addQueueItem"
  /\ call.params.rank = None
  /\ call.params.source = Absent
  /\ Len(call.pre.queue) = 2
  /\ AddedItem.rank = 3

ActiveIds(d) == {ActiveQueue(d)[i].id : i \in DOMAIN ActiveQueue(d)}

Occurrences(ids, id) == Cardinality({i \in DOMAIN ids : ids[i] = id})

\* C14: when ids holds the id of every active item exactly once, every
\* list listQueue() can return right after reorderQueue(ids) holds the
\* active items in the order of ids.
C14_ReorderThenList ==
  (/\ Returned
   /\ call.op = "reorderQueue"
   /\ \A id \in ActiveIds(call.pre) : Occurrences(call.params.ids, id) = 1)
    => \A r \in listQueue(db) :
         [i \in DOMAIN r |-> r[i].id]
           = SelectSeq(call.params.ids, LAMBDA id : id \in ActiveIds(call.pre))

C14_Witness ==
  /\ Returned
  /\ call.op = "reorderQueue"
  /\ Cardinality(ActiveIds(call.pre)) = 2
  /\ call.params.ids = <<2, 1>>
  /\ \E r \in listQueue(call.pre) : r[1].id = 1

\* C15: in every state of an open database, every list listQueue() can
\* return holds each stored item whose status is pending or in_progress
\* exactly once and nothing else, in non-decreasing rank order.
C15_ListQueueActiveByRank ==
  pc # "closed" =>
    /\ listQueue(db) # {}
    /\ \A r \in listQueue(db) :
         /\ \A i \in DOMAIN r :
              /\ \E k \in DOMAIN db.queue : db.queue[k] = r[i]
              /\ r[i].status \in {"pending", "in_progress"}
         /\ \A k \in DOMAIN db.queue :
              db.queue[k].status \in {"pending", "in_progress"}
                => Cardinality({i \in DOMAIN r : r[i] = db.queue[k]}) = 1
         /\ \A i \in DOMAIN r : \A j \in DOMAIN r :
              i < j => r[i].rank <= r[j].rank

C15_Witness ==
  /\ Returned
  /\ call.op = "updateQueueItem"
  /\ call.new = "completed"
  /\ Len(db.queue) = 2
  /\ \E r \in listQueue(db) : Len(r) = 1

\* elements o .. o+l-1, counted from 0, of a list, as far as they exist
Slice(list, o, l) ==
  [i \in 1..(IF Len(list) - o < l
             THEN (IF Len(list) > o THEN Len(list) - o ELSE 0)
             ELSE l) |-> list[o + i]]

\* C16: listActivity returns entries newest first, among entries of equal
\* createdAt the later-inserted first, and for all l and o in 0..MaxPage
\* listActivity(l, o) is elements o .. o+l-1 of listActivity(l+o, 0); with
\* five or more entries listActivity(2, 1) is elements 1 and 2 of
\* listActivity(5, 0).
C16_NewestFirstPaged ==
  pc # "closed" =>
    LET n == Len(db.activity)
        all == listActivity(db, n, 0)
    IN /\ Len(all) = n
       /\ \A k \in DOMAIN db.activity :
            \E i \in DOMAIN all : all[i] = db.activity[k]
       /\ \A i \in DOMAIN all : \A j \in DOMAIN all :
            i < j => \/ all[i].createdAt > all[j].createdAt
                     \/ /\ all[i].createdAt = all[j].createdAt
                        /\ all[i].id > all[j].id
       /\ \A l \in 0..MaxPage : \A o \in 0..MaxPage :
            listActivity(db, l, o) = Slice(listActivity(db, l + o, 0), o, l)
       /\ n >= 5 =>
            listActivity(db, 2, 1) = <<listActivity(db, 5, 0)[2],
                                       listActivity(db, 5, 0)[3]>>

C16_Witness ==
  /\ Returned
  /\ call.op = "logActivity"
  /\ Len(db.activity) = 5
  /\ db.activity[5].createdAt > db.activity[4].createdAt
  /\ db.activity[4].createdAt = db.activity[3].createdAt
  /\ listActivity(db, 2, 1) = <<db.activity[4], db.activity[3]>>

SnapshotsOf(d, jobId) ==
  SelectSeq(d.cron_snapshots, LAMBDA r : r.jobId = jobId)

\* C17: no two cron snapshot rows have the same jobId, and right after
\* upsertCronSnapshot({jobId, lastStatus, lastError}) the one row of jobId
\* holds that lastStatus, that lastError (null when omitted) and the time
\* of the call as lastSeenAt.
C17_OneSnapshotPerJob ==
  /\ \A j \in JobIds : Len(SnapshotsOf(db, j)) <= 1
  /\ (Returned /\ call.op = "upsertCronSnapshot")
       => SnapshotsOf(db, call.params.jobId)
            = <<[jobId |-> call.params.jobId,
                 lastStatus |-> call.new,
                 lastError |-> IF call.params.lastError = Absent
                               THEN Null ELSE call.params.lastError,
                 lastSeenAt |-> call.params.now]>>

C17_Witness ==
  /\ Returned
  /\ call.op = "upsertCronSnapshot"
  /\ call.params.lastError = Absent
  /\ Len(db.cron_snapshots) = 1
  /\ call.pre.cron_snapshots
       = <<[jobId |-> call.params.jobId, lastStatus |-> "error",
            lastError |-> "boom", lastSeenAt |-> 0]>>
  /\ db.cron_snapshots[1].lastStatus = "ok"
  /\ db.cron_snapshots[1].lastSeenAt = 1

\* the last call is a GET /api/state that has run a cron loop iteration
InPass == call.op = "getState" /\ hist.iter # NoIter /\ pc # "closed"

\* the snapshot the last iteration found for its job
PrevSnapshot == getCronSnapshot(hist.iter.pre, hist.iter.job.id)

\* the last iteration upserted the snapshot of its job
Upserted ==
  /\ hist.iter.writes > 0
  /\ getCronSnapshot(db, hist.iter.job.id)
       = [jobId |-> hist.iter.job.id, lastStatus |-> StatusOf(hist.iter.job),
          lastError |-> Null, lastSeenAt |-> hist.iter.now]

\* C18 as stated: the job of an iteration is changed, and its snapshot
\* upserted, exactly if it has no snapshot, or the snapshot's lastStatus
\* differs from the job's status ("unknown" when absent), or the job's
\* lastAt differs from the snapshot's lastSeenAt, a job without lastAt
\* included.
C18_ChangedIffDiffers ==
  InPass =>
    (Upserted <=>
       \/ PrevSnapshot = NoRow
       \/ PrevSnapshot.lastStatus # StatusOf(hist.iter.job)
       \/ hist.iter.job.lastAt # Some(PrevSnapshot.lastSeenAt))

\* C18 as amended: the lastAt of a job counts only when the job has one
\* that is not 0; an iteration that does not upsert writes nothing.
C18_ChangedIffDiffersGuarded ==
  InPass =>
    /\ Upserted <=>
         \/ PrevSnapshot = NoRow
         \/ PrevSnapshot.lastStatus # StatusOf(hist.iter.job)
         \/ \E t \in hist.iter.job.lastAt :
              t # 0 /\ t # PrevSnapshot.lastSeenAt
    /\ Upserted \/ (hist.iter.writes = 0 /\ db = hist.iter.pre)

C18_Witness ==
  /\ InPass
  /\ PrevSnapshot # NoRow
  /\ PrevSnapshot.lastStatus = StatusOf(hist.iter.job)
  /\ hist.iter.job.lastAt = None
  /\ hist.iter.writes = 0
  /\ db = call.pre
  /\ Returned

\* the activity rows the last iteration appended
IterActivity ==
  SubSeq(db.activity, Len(hist.iter.pre.activity) + 1, Len(db.activity))

C20_NoAutoHeal ==
  pc # "closed" =>
    \A i \in DOMAIN db.projects :
      LET p == db.projects[i]
          before == getProjectById(call.pre, p.id)
          inIter == getProjectById(hist.iter.pre, p.id)
      IN /\ (call.op = "getState" /\ before # NoRow
               /\ before.status \in {"red", "yellow"})
              => p.status # "green"
         /\ (InPass /\ inIter.status # p.status)
              => \/ /\ p.status = "red"
                    /\ StatusOf(hist.iter.job) \in {"failure", "error"}
                 \/ /\ p.status = "yellow"
                    /\ StatusOf(hist.iter.job) = "unknown"
         /\ (before # NoRow /\ before.status # "green" /\ p.status = "green")
              => call.op = "updateProject"

C20_Witness ==
  /\ InPass
  /\ Returned
  /\ getProjectById(call.pre, 1).status = "red"
  /\ getProjectById(db, 1).status = "red"
  /\ StatusOf(hist.iter.job) = "ok"
  /\ hist.iter.writes = 4
  /\ Len(call.params.jobs) = 2

\* the timestamps of a deriveHealth call that are given and positive
AvailableTimes ==
  Positive(call.params.lastSeenAt) \cup Positive(call.params.lastAt)

\* C21: deriveHealth returns red when the status is error, failure or
\* failed; otherwise yellow when no timestamp is available or the most
\* recent available one is more than 24 hours before now; otherwise green.
C21_HealthByMostRecent ==
  (call.op = "deriveHealth" /\ call.params # NoRow)
    => call.new =
         IF LowerWord(IF call.params.lastStatus = Null THEN "unknown"
                      ELSE call.params.lastStatus)
              \in {"error", "failure", "failed"}
         THEN "red"
         ELSE IF \A t \in AvailableTimes : clock - t > DayMs
              THEN "yellow"
              ELSE "green"

RegistryOps == {"loadCronJobsFromStateDir", "getCron", "getState"}

BadRegistry(file) ==
  \/ file.kind \in {"missing", "unreadable"}
  \/ file.kind = "text" /\ file.json = Malformed

\* C22: a missing, unreadable or malformed registry file is "no jobs":
\* loadCronJobsFromStateDir returns the empty list without raising, and
\* GET /api/state and GET /api/cron still respond.
C22_BadRegistryIsNoJobs ==
  (call.op \in RegistryOps /\ "file" \in DOMAIN call.params
     /\ BadRegistry(call.params.file))
    => (call.ok /\ call.err = "" /\ call.params.jobs = <<>>)

\* C23: under every interleaving of concurrent requests and commands of one
\* process, including requests that arrive while the first open is still in
\* progress, openDb is invoked at most once and every caller of getRepo
\* obtains the same repository, bound to the same database handle.
C23_OpenedOnce ==
  /\ local.opens <= 1
  /\ \A c \in Callers :
       /\ local.callers[c].at # "start" => local.callers[c].promise = 1
       /\ local.callers[c].at = "has" => local.callers[c].repo = 1

C23_Witness ==
  \E c1, c2 \in Callers :
    /\ c1 # c2
    /\ local.callers[c1].at = "has" /\ local.callers[c1].during = "closed"
    /\ local.callers[c2].at = "has" /\ local.callers[c2].during = "opening"

\* a GET /api/state is past its seeding and ingestion, or has been left
Refreshed ==
  call.op = "getState" /\ "ws" \in DOMAIN call.params /\ pc # "refresh"

ProjectNames(d) == {d.projects[i].name : i \in DOMAIN d.projects}

Created(pre, post) ==
  {post.projects[i].name : i \in (Len(pre.projects) + 1)..Len(post.projects)}

\* C24: seeding on refresh is idempotent: after any GET /api/state with
\* bootstrapOnEmpty on, projects named "Inbox / Triage",
\* "Research / Opportunities" and "Ideas / Backlog" exist; ensureSeeded
\* creates a project and its one seed note only for a seed name that
\* getProjectByName does not find, and a second refresh with an unchanged
\* workspace creates no project and no seed update.
C24_SeedingIdempotent ==
  Refreshed =>
    /\ \A i \in DOMAIN Required : Required[i] \in ProjectNames(db)
    /\ \A n \in Created(call.pre, call.params.seeded) :
         getProjectByName(call.pre, n) = NoRow
    /\ call.params.prev = call.params.ws =>
         /\ call.params.seeded.projects = call.pre.projects
         /\ call.params.seeded.updates = call.pre.updates

PassEnded == call.op = "getState" /\ pc = "idle" /\ "jobs" \in DOMAIN call.params

\* the jobs of the pass that were changed, failed and mapped to project p
FailedChangedJobs(p) ==
  {k \in DOMAIN call.params.jobs :
     /\ Changed(getCronSnapshot(call.pre, call.params.jobs[k].id),
                call.params.jobs[k])
     /\ StatusOf(call.params.jobs[k]) \in {"failure", "error"}
     /\ hist.iter.schedules[k].projectId = Some(p)}

\* C25: at the end of any reconciliation pass in which at least one changed
\* job mapped to project P has status failure or error, P is red, whatever
\* the number and order of the other jobs mapped to P.
C25_FailureLeavesRed ==
  PassEnded =>
    \A p \in RowIds(db.projects) :
      FailedChangedJobs(p) # {} => getProjectById(db, p).status = "red"

Reordered == Returned /\ call.op = "reorderQueue"

Positions(ids, id) == {i \in DOMAIN ids : ids[i] = id}

LastPosition(ids, id) ==
  CHOOSE i \in Positions(ids, id) : \A k \in Positions(ids, id) : k <= i

\* old and new differ in rank and updatedAt at most
SameButRank(old, new) ==
  [new EXCEPT !.rank = old.rank, !.updatedAt = old.updatedAt] = old

\* C26: reorderQueue(ids), for a full or partial list, sets the rank of the
\* item ids[i] to i+1 for every listed id that exists, changes no field of
\* a listed item other than rank and updatedAt, leaves every item not in
\* the list entirely unchanged, and silently ignores ids that match no row.
\* (Positions are counted from 1 here, so position i carries rank i.)
C26_ReorderFrame ==
  Reordered =>
    /\ call.ok
    /\ Len(db.queue) = Len(call.pre.queue)
    /\ \A k \in DOMAIN call.pre.queue :
         LET old == call.pre.queue[k]
             new == db.queue[k]
         IN IF Positions(call.params.ids, old.id) = {} THEN new = old
            ELSE /\ \A i \in Positions(call.params.ids, old.id) : new.rank = i
                 /\ SameButRank(old, new)

\* C26 amended: as C26, but the rank a listed item ends with is that of the
\* last position its id has in the list.
C26_ReorderFrameLastPosition ==
  Reordered =>
    /\ call.ok
    /\ Len(db.queue) = Len(call.pre.queue)
    /\ \A k \in DOMAIN call.pre.queue :
         LET old == call.pre.queue[k]
             new == db.queue[k]
         IN IF Positions(call.params.ids, old.id) = {} THEN new = old
            ELSE /\ new.rank = LastPosition(call.params.ids, old.id)
                 /\ SameButRank(old, new)

C26_Witness ==
  /\ Reordered
  /\ Len(call.params.ids) = 2
  /\ call.params.ids[1] \in MissingIds
  /\ \E k, u \in DOMAIN call.pre.queue :
       /\ call.pre.queue[k].id = call.params.ids[2]
       /\ call.pre.queue[k].rank # 2
       /\ db.queue[k].rank = 2
       /\ Positions(call.params.ids, call.pre.queue[u].id) = {}

\* C27: in every reachable state every stored project's status is one of
\* green, yellow, red, for all request bodies POST /api/projects/update and
\* POST /api/updates accept and all patches passed to updateProject; a
\* status outside the enumeration is rejected or ignored, never stored.
C27_StoredStatusInEnum ==
  \A i \in DOMAIN db.projects : db.projects[i].status \in ProjectStatus

UpdatesWithText(d, text) ==
  Cardinality({i \in DOMAIN d.updates : d.updates[i].text = text})

QueueWithInstruction(d, instruction) ==
  Cardinality({i \in DOMAIN d.queue : d.queue[i].instruction = instruction})

\* C28: ingestion is de-duplicated across refreshes: with unchanged
\* .learnings and memory files, any number of GET /api/state calls add at
\* most one Update (and at most one queue item) per unresolved learnings
\* entry and at most one Update per daily memory file.
C28_IngestedOnce ==
  (Refreshed /\ call.params.prev = call.params.ws) =>
    /\ \A i \in DOMAIN call.params.ws.learnings :
         LET e == call.params.ws.learnings[i]
         IN Unresolved(e) =>
              /\ UpdatesWithText(db, LearningText(e)) <= 1
              /\ QueueWithInstruction(db, LearningInstruction(e)) <= 1
    /\ \A i \in DOMAIN call.params.ws.memory :
         UpdatesWithText(db, MemoryText(call.params.ws.memory[i])) <= 1

\* C29: when two consecutive reconciliation passes read the same job list,
\* the second pass writes nothing: no snapshot, no activity entry, no update
\* and no project change, also for jobs that have a lastRunAt.
C29_SecondPassQuiet ==
  (PassEnded /\ Refreshed /\ call.ok /\ call.params.prev = call.params.ws
     /\ call.params.ws.learnings = <<>> /\ call.params.ws.memory = <<>>)
    => db = call.pre

\* the job of the last iteration has a status deriveHealth shows as red
IterStatusIsRed ==
  deriveHealth([lastStatus |-> StatusOf(hist.iter.job), lastSeenAt |-> None,
                lastAt |-> None], clock) = "red"

IterProject ==
  SelectSeq(hist.iter.schedules,
            LAMBDA m : m.jobId = hist.iter.job.id)[1].projectId

\* C30: for every status deriveHealth classifies as red (error, failure,
\* failed, in any letter case), a changed job with that status is reconciled
\* as a failure: a cron_failed activity entry and, when the job is mapped, a
\* blocker update and a red project.
C30_RedStatusIsFailure ==
  (InPass /\ hist.iter.writes > 0 /\ IterStatusIsRed) =>
    /\ IterActivity # <<>>
    /\ \A i \in DOMAIN IterActivity : IterActivity[i].action = "cron_failed"
    /\ IterProject # None =>
         /\ db.updates # <<>>
         /\ db.updates[Len(db.updates)].type = "blocker"
         /\ getProjectById(db, The(IterProject)).status = "red"
====
